---- MODULE Spec2Model ----
(***************************************************************************)
(* Model of edupage_api/lunches.py: the weekly menu normaliser             *)
(* Lunches.get_meals (with its nested _extract_primary_day) and the meal   *)
(* choice operations Meal.choose / Meal.sign_off.                          *)
(*                                                                         *)
(* JSON values are tagged records.  A string value is a sequence of        *)
(* one-character strings so that the numeric conversions can be modelled   *)
(* by what they do; dictionary keys are plain TLA+ strings.  Numbers are   *)
(* integers (tag "int") or floats held in hundredths (tag "float").        *)
(***************************************************************************)
EXTENDS Integers, Sequences, FiniteSets, TLC

----------------------------------------------------------------------------
(* JSON / Python values *)

Null == [t |-> "null"]
JBool(b) == [t |-> "bool", b |-> b]
JInt(n) == [t |-> "int", n |-> n]
JFloat(h) == [t |-> "float", h |-> h]
JStr(s) == [t |-> "str", s |-> s]
JList(l) == [t |-> "list", l |-> l]
JDict(f) == [t |-> "dict", d |-> f]

EmptyMap == [k \in {} |-> Null]
EmptyDict == JDict(EmptyMap)

\* dict literal helpers: one key, and the union of two maps (right wins)
Map1(k, v) == [x \in {k} |-> v]
Over(f, g) == [x \in (DOMAIN f) \cup (DOMAIN g) |-> IF x \in DOMAIN g THEN g[x] ELSE f[x]]

\* an optional field: the empty map when v is the marker Absent
Absent == [t |-> "absent"]
Fld(k, v) == IF v = Absent THEN EmptyMap ELSE Map1(k, v)

IsDict(v) == v.t = "dict"
IsList(v) == v.t = "list"
IsNone(v) == v.t = "null"

\* Python truthiness (bool(v))
Truthy(v) ==
    CASE v.t = "null" -> FALSE
      [] v.t = "bool" -> v.b
      [] v.t = "int" -> v.n # 0
      [] v.t = "float" -> v.h # 0
      [] v.t = "str" -> Len(v.s) > 0
      [] v.t = "list" -> Len(v.l) > 0
      [] v.t = "dict" -> DOMAIN v.d # {}

\* d.get(k, default) on a value already known to be a dict
Get(v, k, default) == IF k \in DOMAIN v.d THEN v.d[k] ELSE default
Has(v, k) == k \in DOMAIN v.d

\* a or b
PyOr(a, b) == IF Truthy(a) THEN a ELSE b

\* results of partial operations: a value, or an exception escaped
Ok(v) == [ok |-> TRUE, v |-> v]
Raise == [ok |-> FALSE, v |-> Null]

----------------------------------------------------------------------------
(* Python numeric conversions: str(), str.strip(), float(), int(), round() *)

Digits == <<"0", "1", "2", "3", "4", "5", "6", "7", "8", "9">>
IsDigit(c) == \E i \in 1..10 : Digits[i] = c
DigitVal(c) == (CHOOSE i \in 1..10 : Digits[i] = c) - 1
IsSpace(c) == c = " "

RECURSIVE LStrip(_)
LStrip(s) == IF Len(s) > 0 /\ IsSpace(Head(s)) THEN LStrip(Tail(s)) ELSE s
RECURSIVE RStrip(_)
RStrip(s) == IF Len(s) > 0 /\ IsSpace(s[Len(s)]) THEN RStrip(SubSeq(s, 1, Len(s) - 1)) ELSE s
Strip(s) == RStrip(LStrip(s))

AllDigits(s) == \A i \in 1..Len(s) : IsDigit(s[i])
RECURSIVE ToNat(_)
ToNat(s) == IF Len(s) = 0 THEN 0 ELSE 10 * ToNat(SubSeq(s, 1, Len(s) - 1)) + DigitVal(s[Len(s)])

RECURSIVE NatChars(_)
NatChars(n) == IF n < 10 THEN <<Digits[n + 1]>> ELSE NatChars(n \div 10) \o <<Digits[(n % 10) + 1]>>
IntChars(n) == IF n < 0 THEN <<"-">> \o NatChars(-n) ELSE NatChars(n)

\* repr of a float held in hundredths: 15000 -> "150.0", 15070 -> "150.7", 25 -> "0.25"
FloatChars(h) ==
    LET a == IF h < 0 THEN -h ELSE h
        frac == a % 100
        fc == IF frac % 10 = 0 THEN <<Digits[(frac \div 10) + 1]>>
              ELSE <<Digits[(frac \div 10) + 1], Digits[(frac % 10) + 1]>>
    IN (IF h < 0 THEN <<"-">> ELSE << >>) \o NatChars(a \div 100) \o <<".">> \o fc

\* str(v); the text of a container always opens with a bracket
StrOf(v) ==
    CASE v.t = "null" -> <<"N", "o", "n", "e">>
      [] v.t = "bool" -> IF v.b THEN <<"T", "r", "u", "e">> ELSE <<"F", "a", "l", "s", "e">>
      [] v.t = "int" -> IntChars(v.n)
      [] v.t = "float" -> FloatChars(v.h)
      [] v.t = "str" -> v.s
      [] v.t = "list" -> <<"[", "]">>
      [] v.t = "dict" -> <<"{", "}">>

\* sign and body of a numeric literal
SignOf(s) == IF Len(s) > 0 /\ Head(s) = "-" THEN -1 ELSE 1
Unsigned(s) == IF Len(s) > 0 /\ Head(s) \in {"-", "+"} THEN Tail(s) ELSE s
DotAt(s) == IF \E i \in 1..Len(s) : s[i] = "." THEN CHOOSE i \in 1..Len(s) : s[i] = "." /\ \A j \in 1..(i - 1) : s[j] # "." ELSE 0

\* float(text): [sign] digits [. digits] | [sign] . digits, surrounding blanks
\* ignored; the value in hundredths (texts carry at most two decimals)
ParseFloat(s) ==
    LET u == Unsigned(Strip(s))
        p == DotAt(u)
        ip == IF p = 0 THEN u ELSE SubSeq(u, 1, p - 1)
        fp == IF p = 0 THEN << >> ELSE SubSeq(u, p + 1, Len(u))
        f2 == SubSeq(fp \o <<"0", "0">>, 1, 2)
    IN IF AllDigits(ip) /\ AllDigits(fp) /\ Len(ip) + Len(fp) > 0
       THEN Ok(SignOf(Strip(s)) * (100 * ToNat(ip) + ToNat(f2)))
       ELSE Raise

\* int(text): [sign] digits, surrounding blanks ignored
ParseInt(s) ==
    LET u == Unsigned(Strip(s))
    IN IF AllDigits(u) /\ Len(u) > 0 THEN Ok(SignOf(Strip(s)) * ToNat(u)) ELSE Raise

\* truncation toward zero of a value in hundredths
Trunc(h) == IF h < 0 THEN -((-h) \div 100) ELSE h \div 100

\* float(v), value in hundredths
PyFloat(v) ==
    CASE v.t = "str" -> ParseFloat(v.s)
      [] v.t = "int" -> Ok(100 * v.n)
      [] v.t = "float" -> Ok(v.h)
      [] v.t = "bool" -> Ok(IF v.b THEN 100 ELSE 0)
      [] OTHER -> Raise

\* int(v)
PyInt(v) ==
    CASE v.t = "str" -> ParseInt(v.s)
      [] v.t = "int" -> Ok(v.n)
      [] v.t = "float" -> Ok(Trunc(v.h))
      [] v.t = "bool" -> Ok(IF v.b THEN 1 ELSE 0)
      [] OTHER -> Raise

\* round(total / n, 2) on hundredths: nearest, exact ties to the even digit
Round2(total, n) ==
    LET q == total \div n
        r == total % n
    IN IF 2 * r < n THEN q
       ELSE IF 2 * r > n THEN q + 1
       ELSE IF q % 2 = 0 THEN q ELSE q + 1

----------------------------------------------------------------------------
(* Lunches.get_meals._extract_primary_day *)

NotCooking == JDict(Map1("isCooking", JBool(FALSE)))

\* the fields a slot code contributes to the fallback merge
SlotPart(obj, k) == IF Has(obj, k) /\ IsDict(obj.d[k]) THEN obj.d[k].d ELSE EmptyMap

\* variant: "0" and "4" overlaid even when "2" is a mapping
MergeSlotsOverlay(obj) ==
    Over(Over(SlotPart(obj, "2"), SlotPart(obj, "0")), SlotPart(obj, "4"))

\* pick best source: prefer "2", fallback to merging "2", "0", "4" in that order
MergeSlots(obj) ==
    IF Has(obj, "2") /\ IsDict(obj.d["2"])
    THEN obj.d["2"].d
    ELSE Over(Over(SlotPart(obj, "2"), SlotPart(obj, "0")), SlotPart(obj, "4"))

\* merged.pop("nevarisa", None)
PopNevarisa(m) == [k \in (DOMAIN m) \ {"nevarisa"} |-> m[k]]

MergedSlot(obj) == JDict(PopNevarisa(MergeSlots(obj)))

WeightKeys == <<"hmotnostiStr", "hmotnostStr", "hmotnosti", "hmotnost">>

\* int(float(str(x).strip())), None when the conversion throws
WeightVal(x) ==
    LET f == ParseFloat(Strip(StrOf(x)))
    IN IF f.ok THEN JInt(Trunc(f.v)) ELSE Null

\* variant: a value that fails to convert does not end the scan
CoerceWeightAnyKey(r) ==
    LET found == {i \in 1..Len(WeightKeys) : Has(r, WeightKeys[i]) /\ ~IsNone(WeightVal(r.d[WeightKeys[i]]))}
        first == CHOOSE i \in found : \A j \in found : i <= j
    IN IF found = {} THEN JInt(0) ELSE WeightVal(r.d[WeightKeys[first]])

\* the weight of a dish row: the first key present with a non-None value
\* decides, whether or not it converts; 0 when nothing was found
CoerceWeight(r) ==
    LET found == {i \in 1..Len(WeightKeys) : Has(r, WeightKeys[i]) /\ ~IsNone(r.d[WeightKeys[i]])}
        first == CHOOSE i \in found : \A j \in found : i <= j
        weight_val == IF found = {} THEN Null ELSE WeightVal(r.d[WeightKeys[first]])
    IN IF ~IsNone(weight_val) THEN weight_val ELSE JInt(0)

\* the elements "for r in rows" visits; iterating None or a number throws
IterOf(rows) ==
    CASE rows.t = "list" -> Ok(rows.l)
      [] rows.t = "str" -> Ok([i \in 1..Len(rows.s) |-> JStr(<<rows.s[i]>>)])
      [] rows.t = "dict" -> Ok([i \in 1..Cardinality(DOMAIN rows.d) |-> JStr(<<"k">>)])
      [] OTHER -> Raise

\* the loop body over the rows of one menu index
RECURSIVE CleanRowList(_)
CleanRowList(rs) ==
    IF Len(rs) = 0 THEN Ok(<< >>)
    ELSE LET r == Head(rs)
             rest == CleanRowList(Tail(rs))
         IN IF ~IsDict(r) THEN Raise
            ELSE IF ~rest.ok THEN Raise
            ELSE IF ~Truthy(Get(r, "nazov", Null)) THEN rest
            ELSE Ok(<<JDict([name |-> Get(r, "nazov", Null), weight |-> CoerceWeight(r)])>> \o rest.v)

\* cleaned as the list menus_out[mid] holds
AsList(c) == IF c.ok THEN Ok(JList(c.v)) ELSE Raise
CleanIter(it) == IF ~it.ok THEN Raise ELSE AsList(CleanRowList(it.v))

CleanRows(rows) == CleanIter(IterOf(rows))

\* rows of menu index mid; menus.get throws when menus is not a mapping
RowsOf(menus, mid) ==
    IF ~IsDict(menus) THEN Raise
    ELSE LET m == Get(menus, mid, EmptyDict)
         IN Ok(IF IsDict(m) THEN Get(m, "rows", JList(<< >>)) ELSE JList(<< >>))

MenuIds == {"1", "2"}

\* the mapping built by a loop over the menu indexes, unless a pass threw
PerMenuId(f) ==
    IF \A mid \in MenuIds : f[mid].ok
    THEN Ok(JDict([mid \in MenuIds |-> f[mid].v]))
    ELSE Raise

\* the cleaned rows of the row container found for one menu index
CleanFound(rw) == IF rw.ok THEN CleanRows(rw.v) ELSE Raise

MenusIn(menus) == PerMenuId([mid \in MenuIds |-> CleanFound(RowsOf(menus, mid))])

MenusOut(merged) == MenusIn(PyOr(Get(merged, "menus", EmptyDict), EmptyDict))

\* pr_list: the convertible priemer values, in hundredths; it.get throws on
\* an entry that is neither None nor a mapping
\* pr_list.append(float(pr)), skipped when float() throws
AppendPr(f, rest) == IF f.ok THEN Ok(<<f.v>> \o rest.v) ELSE rest

RECURSIVE PrList(_)
PrList(arr) ==
    IF Len(arr) = 0 THEN Ok(<< >>)
    ELSE LET e == Head(arr)
             rest == PrList(Tail(arr))
         IN IF ~rest.ok THEN Raise
            ELSE IF IsNone(e) THEN rest
            ELSE IF ~IsDict(e) THEN Raise
            ELSE IF IsNone(Get(e, "priemer", Null)) THEN rest
            ELSE AppendPr(PyFloat(Get(e, "priemer", Null)), rest)

RECURSIVE SumSeq(_)
SumSeq(s) == IF Len(s) = 0 THEN 0 ELSE Head(s) + SumSeq(Tail(s))

OrZero(c) == IF c.ok THEN c.v ELSE 0

\* variant: the amount of the first entry that has a priemer
RECURSIVE AmountOfFirstRated(_)
AmountOfFirstRated(arr) ==
    IF Len(arr) = 0 THEN 0
    ELSE LET e == Head(arr)
         IN IF IsDict(e) /\ ~IsNone(Get(e, "priemer", Null))
            THEN OrZero(PyInt(Get(e, "pocet", JInt(0))))
            ELSE AmountOfFirstRated(Tail(arr))

\* int(arr[0].get("pocet", 0)), 0 when anything in it throws
AmountOf(arr) == OrZero(IF IsDict(arr[1]) THEN PyInt(Get(arr[1], "pocet", JInt(0))) ELSE Raise)

\* the review summary of one menu index
Summary(pl, arr) ==
    IF ~pl.ok THEN Raise
    ELSE Ok(JDict([average |-> IF Len(pl.v) > 0
                               THEN JFloat(Round2(SumSeq(pl.v), Len(pl.v)))
                               ELSE JFloat(-100),
                   amount |-> JInt(AmountOf(arr))]))

Review(arr) ==
    IF Truthy(arr) /\ IsList(arr) /\ Len(arr.l) > 0
    THEN Summary(PrList(arr.l), arr.l)
    ELSE Ok(JDict([average |-> JInt(-1), amount |-> JInt(0)]))

\* hodnotenia.get(mid) throws when hodnotenia is not a mapping
ReviewsIn(hodnotenia) ==
    PerMenuId([mid \in MenuIds |-> IF ~IsDict(hodnotenia) THEN Raise ELSE Review(Get(hodnotenia, mid, Null))])

ReviewsOut(merged) == ReviewsIn(PyOr(Get(merged, "hodnotenia", EmptyDict), EmptyDict))

\* the record of a cooking day
OutRecord(merged, mo, ro) ==
    IF mo.ok /\ ro.ok
    THEN Ok(JDict(Over(IF Has(merged, "isRating")
                       THEN [isCooking |-> JBool(TRUE), isRating |-> merged.d["isRating"]]
                       ELSE [isCooking |-> JBool(TRUE)],
                       [menus |-> mo.v, reviews |-> ro.v])))
    ELSE Raise

CookingDay(merged) == OutRecord(merged, MenusOut(merged), ReviewsOut(merged))

\* the checks after the merge
FromMerged(merged) ==
    IF ~Truthy(Get(merged, "isCooking", Null)) THEN Ok(NotCooking) ELSE CookingDay(merged)

\* variant: the rating flag is copied before the cooking check
FromMergedKeepRating(merged) ==
    IF ~Truthy(Get(merged, "isCooking", Null))
    THEN Ok(JDict(Over(NotCooking.d, Fld("isRating", Get(merged, "isRating", Absent)))))
    ELSE CookingDay(merged)

ExtractPrimaryDayKeepRating(obj) ==
    IF ~IsDict(obj) THEN Ok(NotCooking) ELSE FromMergedKeepRating(MergedSlot(obj))

ExtractPrimaryDay(obj) ==
    IF ~IsDict(obj) THEN Ok(NotCooking) ELSE FromMerged(MergedSlot(obj))

----------------------------------------------------------------------------
(* datetime.date: toordinal, fromordinal, weekday, timedelta, strftime *)

IsLeap(y) == y % 4 = 0 /\ (y % 100 # 0 \/ y % 400 = 0)
DaysInMonth == <<31, 28, 31, 30, 31, 30, 31, 31, 30, 31, 30, 31>>
DaysBeforeMonthTab == <<0, 31, 59, 90, 120, 151, 181, 212, 243, 273, 304, 334>>
DaysBeforeYear(y) == (y - 1) * 365 + ((y - 1) \div 4) - ((y - 1) \div 100) + ((y - 1) \div 400)
DaysBeforeMonth(y, m) == DaysBeforeMonthTab[m] + (IF m > 2 /\ IsLeap(y) THEN 1 ELSE 0)

ToOrdinal(dt) == DaysBeforeYear(dt.y) + DaysBeforeMonth(dt.y, dt.m) + dt.d

FromOrdinal(ord) ==
    LET n0 == ord - 1
        n400 == n0 \div 146097
        na == n0 % 146097
        n100 == na \div 36524
        nb == na % 36524
        n4 == nb \div 1461
        nc == nb % 1461
        n1 == nc \div 365
        n == nc % 365
        year == n400 * 400 + 1 + n100 * 100 + n4 * 4 + n1
        leapyear == n1 = 3 /\ (n4 # 24 \/ n100 = 3)
        month0 == (n + 50) \div 32
        prec0 == DaysBeforeMonthTab[month0] + (IF month0 > 2 /\ leapyear THEN 1 ELSE 0)
        month == IF prec0 > n THEN month0 - 1 ELSE month0
        prec == IF prec0 > n
                THEN prec0 - (DaysInMonth[month] + (IF month = 2 /\ leapyear THEN 1 ELSE 0))
                ELSE prec0
    IN IF n1 = 4 \/ n100 = 4
       THEN [y |-> year - 1, m |-> 12, d |-> 31]
       ELSE [y |-> year, m |-> month, d |-> n - prec + 1]

\* date.weekday(): Monday is 0
Weekday(dt) == (ToOrdinal(dt) + 6) % 7

\* date + timedelta(days = k)
AddDays(dt, k) == FromOrdinal(ToOrdinal(dt) + k)

Pad2(n) == IF n < 10 THEN "0" \o ToString(n) ELSE ToString(n)
Pad4(n) == IF n < 10 THEN "000" \o ToString(n)
           ELSE IF n < 100 THEN "00" \o ToString(n)
           ELSE IF n < 1000 THEN "0" \o ToString(n)
           ELSE ToString(n)

\* date.strftime("%Y-%m-%d")
Strftime(dt) == Pad4(dt.y) \o "-" \o Pad2(dt.m) \o "-" \o Pad2(dt.d)

\* variant: the week is anchored with isoweekday() (Monday is 1)
WeekKeysIso(dt) ==
    LET monday == AddDays(dt, 0 - (Weekday(dt) + 1))
    IN [i \in 1..5 |-> Strftime(AddDays(monday, i - 1))]

\* compute monday..friday for the given date
WeekKeys(dt) ==
    LET monday == AddDays(dt, -Weekday(dt))
    IN [i \in 1..5 |-> Strftime(AddDays(monday, i - 1))]

----------------------------------------------------------------------------
(* Lunches.get_meals *)

\* lunch_data.get("robotnik", {}).get("novyListok", lunch_data.get("robotnik", lunch_data))
LocateRoot(ld) ==
    IF ~IsDict(ld) THEN Raise
    ELSE LET rb == Get(ld, "robotnik", EmptyDict)
         IN IF ~IsDict(rb) THEN Raise
            ELSE Ok(Get(rb, "novyListok", Get(ld, "robotnik", ld)))

\* result[wk] for one week key
DayResult(root, wk) ==
    LET day_obj == Get(root, wk, Null)
    IN IF IsNone(day_obj) THEN Ok(NotCooking) ELSE ExtractPrimaryDay(day_obj)

\* the merged slot the normaliser worked on for one week key (None when the
\* day never reached the merge)
DayMerged(root, wk) ==
    LET day_obj == Get(root, wk, Null)
    IN IF IsDict(day_obj) THEN MergedSlot(day_obj) ELSE Null

RECURSIVE IsPrefix(_, _)
IsPrefix(w, s) == Len(w) = 0 \/ (Len(s) > 0 /\ Head(w) = Head(s) /\ IsPrefix(Tail(w), Tail(s)))
RECURSIVE IsSubstring(_, _)
IsSubstring(w, s) == IsPrefix(w, s) \/ (Len(s) > 0 /\ IsSubstring(w, Tail(s)))

\* "word in v" for a non-mapping v: a thrown TypeError is Raise
ContainsWord(v, w) ==
    CASE v.t = "str" -> Ok(IsSubstring(w, v.s))
      [] v.t = "list" -> Ok(\E i \in 1..Len(v.l) : v.l[i] = JStr(w))
      [] v.t = "dict" -> Ok(FALSE)
      [] OTHER -> Raise

Meno == <<"m", "e", "n", "o">>
Priezvisko == <<"p", "r", "i", "e", "z", "v", "i", "s", "k", "o">>

\* a non-mapping strRow: .get throws once a word is found in it
NoUser(a, b) == IF ~a.ok \/ ~b.ok \/ a.v \/ b.v THEN Raise ELSE Ok(EmptyMap)

\* the user sub-record built from strRow
UserOut(str_row) ==
    IF IsDict(str_row)
    THEN Ok(Over(IF Has(str_row, "meno") THEN Map1("name", str_row.d["meno"]) ELSE EmptyMap,
                 IF Has(str_row, "priezvisko") THEN Map1("surname", str_row.d["priezvisko"]) ELSE EmptyMap))
    ELSE NoUser(ContainsWord(str_row, Meno), ContainsWord(str_row, Priezvisko))

\* info: move addInfo -> info, move info2 contents, rename fields
\* info["id"]: int(sid), None when it throws; no key when sid is None
IdOrNone(c) == IF c.ok THEN JInt(c.v) ELSE Null
IdPart(sid) == IF IsNone(sid) THEN EmptyMap ELSE Map1("id", IdOrNone(PyInt(sid)))

InfoFrom(add_info, sid1, row1, info2, kredit, user) ==
    IF (~Truthy(sid1) /\ ~IsDict(row1)) \/ ~IsDict(info2) \/ ~user.ok THEN Raise
    ELSE Ok(JDict(Over(Over(IdPart(IF Truthy(sid1) THEN sid1 ELSE Get(row1, "stravnikid", Null)),
                            [credit |-> IF ~IsNone(kredit) THEN kredit ELSE Get(info2, "kredit", Null),
                             days |-> Get(info2, "pocetDni", Null)]),
                       IF DOMAIN user.v # {} THEN Map1("user", JDict(user.v)) ELSE EmptyMap)))

\* the user sub-record of a strRow that may be missing or falsy
UserOf(str_row) == IF Truthy(str_row) THEN UserOut(str_row) ELSE Ok(EmptyMap)

InfoOut(add_info) ==
    IF ~IsDict(add_info) THEN Raise
    ELSE InfoFrom(add_info,
                  Get(add_info, "stravnikid", Null),
                  PyOr(Get(add_info, "strRow", EmptyDict), EmptyDict),
                  PyOr(Get(add_info, "info2", Null), EmptyDict),
                  Get(add_info, "kredit", Null),
                  UserOf(PyOr(Get(add_info, "strRow", Null), EmptyDict)))

AddInfoOf(root) == PyOr(PyOr(Get(root, "addInfo", Null), Get(root, "addinfo", Null)), EmptyDict)

\* the whole call on a parsed payload: the week keys, the merged slot of each
\* day, and the returned mapping (or an escaped exception)
\* result["info"], set only for a truthy account section
InfoPart(add_info) == IF Truthy(add_info) THEN InfoOut(add_info) ELSE Ok(Absent)

\* the returned mapping from the five day records and the info record
Assemble(wks, days, info, mrg) ==
    IF (\E i \in 1..5 : ~days[i].ok) \/ ~info.ok
    THEN [raised |-> TRUE, week_keys |-> wks, merged |-> mrg, result |-> Null]
    ELSE [raised |-> FALSE,
          week_keys |-> wks,
          merged |-> mrg,
          result |-> JDict(Over([k \in {wks[i] : i \in 1..5} |-> days[CHOOSE i \in 1..5 : wks[i] = k].v],
                                Fld("info", info.v)))]

OnRoot(wks, rt) ==
    IF ~rt.ok \/ ~IsDict(rt.v)
    THEN [raised |-> TRUE, week_keys |-> wks, merged |-> [i \in 1..5 |-> Null], result |-> Null]
    ELSE Assemble(wks,
                  [i \in 1..5 |-> DayResult(rt.v, wks[i])],
                  InfoPart(AddInfoOf(rt.v)),
                  [i \in 1..5 |-> DayMerged(rt.v, wks[i])])

GetMealsOn(dt, ld) == OnRoot(WeekKeys(dt), LocateRoot(ld))

----------------------------------------------------------------------------
(* Input sets *)

\* calendar days of 2024-02-19 .. 2024-03-10 and 2024-12-23 .. 2025-01-12,
\* each run starting on a Monday, as date values and as their ISO texts
CalDates == <<
    [y |-> 2024, m |-> 2, d |-> 19], [y |-> 2024, m |-> 2, d |-> 20], [y |-> 2024, m |-> 2, d |-> 21],
    [y |-> 2024, m |-> 2, d |-> 22], [y |-> 2024, m |-> 2, d |-> 23], [y |-> 2024, m |-> 2, d |-> 24],
    [y |-> 2024, m |-> 2, d |-> 25], [y |-> 2024, m |-> 2, d |-> 26], [y |-> 2024, m |-> 2, d |-> 27],
    [y |-> 2024, m |-> 2, d |-> 28], [y |-> 2024, m |-> 2, d |-> 29], [y |-> 2024, m |-> 3, d |-> 1],
    [y |-> 2024, m |-> 3, d |-> 2], [y |-> 2024, m |-> 3, d |-> 3], [y |-> 2024, m |-> 3, d |-> 4],
    [y |-> 2024, m |-> 3, d |-> 5], [y |-> 2024, m |-> 3, d |-> 6], [y |-> 2024, m |-> 3, d |-> 7],
    [y |-> 2024, m |-> 3, d |-> 8], [y |-> 2024, m |-> 3, d |-> 9], [y |-> 2024, m |-> 3, d |-> 10],
    [y |-> 2024, m |-> 12, d |-> 23], [y |-> 2024, m |-> 12, d |-> 24], [y |-> 2024, m |-> 12, d |-> 25],
    [y |-> 2024, m |-> 12, d |-> 26], [y |-> 2024, m |-> 12, d |-> 27], [y |-> 2024, m |-> 12, d |-> 28],
    [y |-> 2024, m |-> 12, d |-> 29], [y |-> 2024, m |-> 12, d |-> 30], [y |-> 2024, m |-> 12, d |-> 31],
    [y |-> 2025, m |-> 1, d |-> 1], [y |-> 2025, m |-> 1, d |-> 2], [y |-> 2025, m |-> 1, d |-> 3],
    [y |-> 2025, m |-> 1, d |-> 4], [y |-> 2025, m |-> 1, d |-> 5], [y |-> 2025, m |-> 1, d |-> 6],
    [y |-> 2025, m |-> 1, d |-> 7], [y |-> 2025, m |-> 1, d |-> 8], [y |-> 2025, m |-> 1, d |-> 9],
    [y |-> 2025, m |-> 1, d |-> 10], [y |-> 2025, m |-> 1, d |-> 11], [y |-> 2025, m |-> 1, d |-> 12] >>
CalKeys == <<
    "2024-02-19", "2024-02-20", "2024-02-21", "2024-02-22", "2024-02-23",
    "2024-02-24", "2024-02-25", "2024-02-26", "2024-02-27", "2024-02-28",
    "2024-02-29", "2024-03-01", "2024-03-02", "2024-03-03", "2024-03-04",
    "2024-03-05", "2024-03-06", "2024-03-07", "2024-03-08", "2024-03-09",
    "2024-03-10", "2024-12-23", "2024-12-24", "2024-12-25", "2024-12-26",
    "2024-12-27", "2024-12-28", "2024-12-29", "2024-12-30", "2024-12-31",
    "2025-01-01", "2025-01-02", "2025-01-03", "2025-01-04", "2025-01-05",
    "2025-01-06", "2025-01-07", "2025-01-08", "2025-01-09", "2025-01-10",
    "2025-01-11", "2025-01-12" >>

RefDates == {CalDates[i] : i \in 1..Len(CalDates)}
CalIndex(dt) == CHOOSE i \in 1..Len(CalDates) : CalDates[i] = dt

\* a day object from its three slot codes
DayOf(s2, s0, s4) == JDict(Over(Over(Fld("2", s2), Fld("0", s0)), Fld("4", s4)))

T == JBool(TRUE)
F == JBool(FALSE)
LetterX == JStr(<<"X">>)
LetterV == JStr(<<"V">>)
LetterA == JStr(<<"A">>)
LetterB == JStr(<<"B">>)
LetterC == JStr(<<"C">>)
Soup == JStr(<<"S", "o", "u", "p">>)
Bangs == JStr(<<"!", "!">>)
Ryza == JStr(<<"I", ".", " ", "R", "y", "z", "a">>)
Abc == JStr(<<"a", "b", "c">>)

SoupRow == JDict([nazov |-> Soup, hmotnostiStr |-> JStr(<<"1", "5", "0", ".", "0">>)])
SimpleMenus == JDict([k \in {"1"} |-> JDict([rows |-> JList(<<SoupRow>>)])])
SimpleRatings == JDict([k \in {"1"} |-> JList(<<JDict([priemer |-> JStr(<<"4", ".", "0">>), pocet |-> JInt(5)])>>)])

\* the prior-selection records tried
Evidencias == {Absent, Null, Abc,
               JDict([stav |-> LetterX]),
               JDict([stav |-> LetterX, obj |-> LetterA]),
               JDict([stav |-> LetterV, obj |-> LetterA]),
               JDict([obj |-> LetterA]),
               JDict([obj |-> LetterB]),
               JDict([stav |-> LetterV, obj |-> LetterC]),
               EmptyDict}

\* fields a slot carries besides the ones the merge is about
RichFields == [isRating |-> T, menus |-> SimpleMenus, hodnotenia |-> SimpleRatings,
               evidencia |-> JDict([stav |-> LetterV, obj |-> LetterB])]
Extras == {EmptyMap, RichFields}

Slots2 == {JDict(Over(Over(Fld("isCooking", c), Fld("a", a)), Fld("nevarisa", n))) :
              c \in {Absent, T, F}, a \in {Absent, JInt(1)}, n \in {Absent, T}}
          \cup {JDict(Over(Fld("isCooking", c), RichFields)) : c \in {Absent, T, F}}
          \cup {Absent, Null, JList(<<T>>)}
Slots0 == {JDict(Over(Fld("isCooking", c), Fld("a", a))) : c \in {Absent, T}, a \in {Absent, JInt(1)}}
          \cup {JDict([isCooking |-> T, a |-> JInt(1), b |-> JInt(3)]), Absent, Abc}
Slots4 == {JDict(Over(Fld("isCooking", c), Fld("a", a))) : c \in {Absent, T, JInt(0)}, a \in {Absent, JInt(2)}}
          \cup {JDict(Over([isCooking |-> T, nevarisa |-> F], RichFields)),
                JDict([isCooking |-> T, a |-> JInt(2), b |-> JInt(3), nevarisa |-> T]),
                Absent}

SlotObjects == {DayOf(s2, s0, s4) : s2 \in Slots2, s0 \in Slots0, s4 \in Slots4}

\* a cooking day whose only slot is "2" with the given extra fields
CookingWith(fields) == DayOf(JDict(Over(Map1("isCooking", T), fields)), Absent, Absent)

EvidenciaObjects == {CookingWith(Over(x, Fld("evidencia", e))) : e \in Evidencias, x \in Extras}

----------------------------------------------------------------------------
(* Dish rows tried *)

\* weight values with the integer Python gives for int(float(str(v).strip())),
\* 0 standing for a conversion that throws
WeightCases == <<
    [v |-> JStr(<<"1", "5", "0", ".", "0">>), w |-> 150],
    [v |-> JStr(<<"a", "b", "c">>), w |-> 0],
    [v |-> JStr(<< >>), w |-> 0],
    [v |-> JStr(<<" ", "1", "2", " ">>), w |-> 12],
    [v |-> JStr(<<"-", "3", ".", "7">>), w |-> -3],
    [v |-> JStr(<<".", "5">>), w |-> 0],
    [v |-> JStr(<<"5", ".">>), w |-> 5],
    [v |-> JStr(<<"1", ".", "2", ".", "3">>), w |-> 0],
    [v |-> JInt(7), w |-> 7],
    [v |-> JFloat(1290), w |-> 12],
    [v |-> JBool(TRUE), w |-> 0],
    [v |-> JList(<<JInt(1)>>), w |-> 0],
    [v |-> JFloat(-50), w |-> 0],
    [v |-> JStr(<<"+", "8">>), w |-> 8],
    [v |-> JFloat(390), w |-> 3] >>
WeightValueRows == {JDict([nazov |-> Soup, hmotnostiStr |-> WeightCases[i].v]) : i \in 1..Len(WeightCases)}

\* per weight key: a value that converts, and the integer it converts to
GoodWeights == <<JStr(<<"1", "5", "0", ".", "0">>), JStr(<<" ", "1", "2", " ">>), JInt(7), JFloat(390)>>
GoodWeightInts == <<150, 12, 7, 3>>
KeyChoices(i) == {Absent, Null, GoodWeights[i], Abc}
WeightKeyRows == {JDict(Over(Map1("nazov", Soup),
                        Over(Over(Fld(WeightKeys[1], v1), Fld(WeightKeys[2], v2)),
                             Over(Fld(WeightKeys[3], v3), Fld(WeightKeys[4], v4))))) :
                     v1 \in KeyChoices(1), v2 \in KeyChoices(2), v3 \in KeyChoices(3), v4 \in KeyChoices(4)}

\* dish names with the text the documented cleaning leaves of them
NameCases == <<
    [v |-> Soup, clean |-> <<"S", "o", "u", "p">>],
    [v |-> Bangs, clean |-> << >>],
    [v |-> Ryza, clean |-> <<"R", "y", "z", "a">>],
    [v |-> JStr(<< >>), clean |-> << >>],
    [v |-> Null, clean |-> << >>],
    [v |-> Absent, clean |-> << >>],
    [v |-> JInt(5), clean |-> << >>],
    [v |-> JStr(<<"M", "a", "s", "o", " ", "I", ".", " ", "s", "!">>), clean |-> <<"M", "a", "s", "o", " ", " ", "s">>] >>
NamedRow(i) == JDict(Over(Fld("nazov", NameCases[i].v), Map1("hmotnosti", JInt(i))))
RowSet == {NamedRow(i) : i \in 1..Len(NameCases)} \cup {Abc, Null}

MaxRows == 2
RECURSIVE SeqsUpTo(_, _)
SeqsUpTo(S, n) == IF n = 0 THEN {<< >>} ELSE SeqsUpTo(S, n - 1) \cup {Append(q, x) : q \in {r \in SeqsUpTo(S, n - 1) : Len(r) = n - 1}, x \in S}

MenusOfRows(mid, rows) == JDict(Over(SimpleMenus.d, Map1(mid, JDict([rows |-> JList(rows)]))))

\* containers of the wrong shape
MenusShapes == {JList(<<JInt(1)>>), Abc, JInt(3), JList(<< >>), Null,
                JDict(Map1("1", JList(<<SoupRow>>))),
                JDict(Map1("1", EmptyDict)),
                JDict(Map1("2", JDict([rows |-> Null]))),
                JDict(Map1("1", JDict([rows |-> Abc]))),
                JDict(Map1("1", JDict([rows |-> JStr(<< >>)]))),
                JDict(Map1("1", JDict([rows |-> JDict([k |-> SoupRow])]))),
                JDict(Map1("1", JDict([rows |-> EmptyDict]))),
                JDict(Map1("2", JDict([rows |-> JInt(3)])))}

RowObjects ==
    {CookingWith(Map1("menus", JDict(Map1("1", JDict([rows |-> JList(<<r>>)]))))) : r \in WeightKeyRows}
    \cup {CookingWith(Map1("menus", JDict(Map1("2", JDict([rows |-> JList(<<r>>)]))))) : r \in WeightValueRows}
    \cup {CookingWith(Map1("menus", MenusOfRows(mid, rows))) : mid \in MenuIds, rows \in SeqsUpTo(RowSet, MaxRows)}
    \cup {CookingWith(Map1("menus", m)) : m \in MenusShapes}

----------------------------------------------------------------------------
(* Rating entries tried *)

\* rating entries with what Python makes of them: whether float(priemer)
\* succeeds and its value in hundredths, and int(pocet) (0 when it throws or
\* the field is missing)
RatingCases == <<
    [e |-> JDict([priemer |-> JStr(<<"4", ".", "0">>), pocet |-> JInt(5)]), usable |-> TRUE, pr |-> 400, amt |-> 5],
    [e |-> JDict([priemer |-> JStr(<<"5", ".", "0">>), pocet |-> JInt(9)]), usable |-> TRUE, pr |-> 500, amt |-> 9],
    [e |-> JDict([pocet |-> JInt(7)]), usable |-> FALSE, pr |-> 0, amt |-> 7],
    [e |-> Null, usable |-> FALSE, pr |-> 0, amt |-> 0],
    [e |-> JDict([priemer |-> Abc, pocet |-> JStr(<<"3">>)]), usable |-> FALSE, pr |-> 0, amt |-> 3],
    [e |-> JDict([priemer |-> JFloat(425), pocet |-> Abc]), usable |-> TRUE, pr |-> 425, amt |-> 0],
    [e |-> JDict([priemer |-> JStr(<<"4", ".", "5">>)]), usable |-> TRUE, pr |-> 450, amt |-> 0],
    [e |-> JDict([priemer |-> Null, pocet |-> JStr(<<" ", "2", " ">>)]), usable |-> FALSE, pr |-> 0, amt |-> 2],
    [e |-> JDict([priemer |-> JInt(3), pocet |-> JStr(<<"5", ".", "0">>)]), usable |-> TRUE, pr |-> 300, amt |-> 0] >>
EntrySet == {RatingCases[i].e : i \in {1, 2, 3, 4, 5, 6, 9}} \cup {Abc}
CaseOf(e) == RatingCases[CHOOSE i \in 1..Len(RatingCases) : RatingCases[i].e = e]

MaxEntries == 3

RatingShapes == {JList(<<JInt(1)>>), Abc, JInt(3), JList(<< >>), Null, EmptyDict,
                 JDict(Map1("1", Abc)),
                 JDict(Map1("1", Null)),
                 JDict(Map1("2", JDict([priemer |-> JInt(4), pocet |-> JInt(2)]))),
                 JDict(Map1("2", JList(<< >>)))}

ShortLists == {<<RatingCases[i].e>> : i \in 1..Len(RatingCases)}
RatingObjects ==
    {CookingWith(Map1("hodnotenia", JDict(Map1("1", JList(arr))))) : arr \in SeqsUpTo(EntrySet, MaxEntries)}
    \cup {CookingWith(Map1("hodnotenia", JDict(Map1("2", JList(arr))))) : arr \in ShortLists}
    \cup {CookingWith(Map1("hodnotenia", h)) : h \in RatingShapes}

DayObjects == SlotObjects \cup EvidenciaObjects \cup RowObjects \cup RatingObjects \cup {Null, Abc, JList(<<T>>), EmptyDict}

----------------------------------------------------------------------------
(* Payloads tried *)

SimpleDay == CookingWith(EmptyMap)

\* where the schedule sits inside the parsed payload
Wrappers == {"plain", "robotnik", "novyListok", "badRobotnik", "badRoot"}
Wrap(w, root) ==
    CASE w = "plain" -> root
      [] w = "robotnik" -> JDict(Map1("robotnik", root))
      [] w = "novyListok" -> JDict(Map1("robotnik", JDict(Map1("novyListok", root))))
      [] w = "badRobotnik" -> JDict(Over(root.d, Map1("robotnik", Abc)))
      [] w = "badRoot" -> JDict(Map1("robotnik", JList(<<root>>)))

StrRows == {Absent, Null, Abc,
            JStr(Meno),
            JList(<<Abc>>),
            JInt(4),
            JDict([priezvisko |-> JStr(<<"N", "o", "v", "a", "k">>)]),
            JDict([meno |-> JStr(<<"J", "a", "n">>), priezvisko |-> JStr(<<"N", "o", "v", "a", "k">>), stravnikid |-> JStr(<<"7", "7">>)])}
AddInfos ==
    {JDict(Over(Over(Over(Fld("stravnikid", sid), Fld("kredit", k)), Fld("info2", i2)), Fld("strRow", sr))) :
        sid \in {Absent, JStr(<<"1", "2">>)},
        k \in {Absent, JStr(<<"3", ".", "5", "0">>)},
        i2 \in {Absent, JDict([kredit |-> JStr(<<"1", ".", "0", "0">>), pocetDni |-> JInt(4)]), Abc},
        sr \in StrRows}
    \cup {Abc}
SimpleInfo == JDict([stravnikid |-> JStr(<<"1", "2">>)])

\* which days of the Monday-to-Sunday week the payload carries
DayPatterns == {{}, 0..6, {0, 2, 5}, {1, 4, 6}}
WeekStart(dt) == CalIndex(dt) - ((CalIndex(dt) - 1) % 7)
DaysMap(dt, pat) == [k \in {CalKeys[WeekStart(dt) + o] : o \in pat} |-> SimpleDay]

WeekPayloads(dt) ==
    {JDict(Over(DaysMap(dt, pat), Fld("addInfo", ai))) : pat \in DayPatterns, ai \in {Absent, SimpleInfo}}
    \cup {Wrap(w, JDict(DaysMap(dt, 0..6))) : w \in Wrappers}

\* payloads tried for the first calendar date only: every day object on its
\* Wednesday, every account section under either spelling
FocusPayloads ==
    {JDict(Map1(CalKeys[3], obj)) : obj \in DayObjects}
    \cup {JDict(Over(Map1(CalKeys[1], SimpleDay), Map1("addInfo", ai))) : ai \in AddInfos}
    \cup {JDict([addinfo |-> SimpleInfo]), JDict([addInfo |-> EmptyDict, addinfo |-> SimpleInfo])}

Payloads(dt) == WeekPayloads(dt) \cup (IF dt = CalDates[1] THEN FocusPayloads ELSE {})

----------------------------------------------------------------------------
(* State *)

VARIABLES
    pc,            \* "start": get_meals not yet run; "returned"; "raised"
    date,          \* get_meals' date argument
    lunch_data,    \* the parsed payload
    week_keys,     \* get_meals' week_keys list
    merged,        \* the merged slot of each of the five days
    result,        \* the mapping get_meals returns
    ordered_meal,  \* Meal.ordered_meal
    posts,         \* requests made through session.post so far
    accepted,      \* the last submission the server accepted, and the initial order
    last           \* the last Meal call: operation, argument, response, outcome

getVars == <<pc, date, lunch_data, week_keys, merged, result>>
mealVars == <<ordered_meal, posts, accepted, last>>
vars == <<pc, date, lunch_data, week_keys, merged, result, ordered_meal, posts, accepted, last>>

NoCall == [op |-> "none", number |-> 0, response |-> Null, exc |-> "", before |-> Null]

\* a Meal as parse_meal leaves it, before any choice is submitted
MealStart(m) ==
    /\ ordered_meal = m
    /\ posts = 0
    /\ accepted = [any |-> FALSE, choice |-> Null, init |-> m]
    /\ last = NoCall

Init ==
    /\ pc = "start"
    /\ date \in RefDates
    /\ lunch_data \in Payloads(date)
    /\ week_keys = << >>
    /\ merged = << >>
    /\ result = Null
    /\ MealStart(Null)

\* Lunches.get_meals(date) on the parsed payload
GetMeals ==
    /\ pc = "start"
    /\ \E r \in {GetMealsOn(date, lunch_data)} :
          /\ pc' = IF r.raised THEN "raised" ELSE "returned"
          /\ week_keys' = r.week_keys
          /\ merged' = r.merged
          /\ result' = r.result
    /\ UNCHANGED <<date, lunch_data>>
    /\ UNCHANGED mealVars

Next == GetMeals

Spec == Init /\ [][Next]_vars

----------------------------------------------------------------------------
(* Meal.choose / Meal.sign_off *)

Letters == <<"A", "B", "C", "D", "E", "F", "G", "H">>
AX == JStr(<<"A", "X">>)

\* letters[idx] with Python's negative indexing; IndexError is Raise
LetterAt(idx) ==
    IF 0 <= idx /\ idx < Len(Letters) THEN Ok(JStr(<<Letters[idx + 1]>>))
    ELSE IF 0 - Len(Letters) <= idx /\ idx < 0 THEN Ok(JStr(<<Letters[Len(Letters) + idx + 1]>>))
    ELSE Raise

\* variant: only a truthy error field is taken as a rejection
MakeChoiceTruthy(response) ==
    IF ~IsDict(response) THEN "AttributeError"
    ELSE IF Truthy(Get(response, "error", Null)) THEN "FailedToChangeMealError"
    ELSE ""

\* Meal.__make_choice after the POST: the exception it ends with, "" for none
MakeChoice(response) ==
    IF ~IsDict(response) THEN "AttributeError"
    ELSE IF Get(response, "error", Null) # JStr(<< >>) THEN "FailedToChangeMealError"
    ELSE ""

MaxPosts == 3
MaxWrap == 1
ChooseNumbers == (0 - MaxWrap)..(Len(Letters) + 1)
Responses == {EmptyDict, JDict([error |-> JStr(<< >>)]), JDict([error |-> Abc]),
              JDict([error |-> Null]), JDict([error |-> JInt(0)]), JList(<< >>)}
InitialMeals == {Null, LetterA, LetterV}

\* Meal.choose(edupage, number), the server answering with response
Choose(number, response) ==
    /\ posts < MaxPosts
    /\ LET letter == LetterAt(number - 1)
           exc == IF letter.ok THEN MakeChoice(response) ELSE "IndexError"
       IN /\ posts' = IF letter.ok THEN posts + 1 ELSE posts
          /\ ordered_meal' = IF exc = "" THEN letter.v ELSE ordered_meal
          /\ accepted' = IF exc = "" THEN [accepted EXCEPT !.any = TRUE, !.choice = letter.v] ELSE accepted
          /\ last' = [op |-> "choose", number |-> number,
                      response |-> IF letter.ok THEN response ELSE Null,
                      exc |-> exc, before |-> ordered_meal]
    /\ UNCHANGED getVars

\* Meal.sign_off(edupage), the server answering with response
SignOff(response) ==
    /\ posts < MaxPosts
    /\ LET exc == MakeChoice(response)
       IN /\ posts' = posts + 1
          /\ ordered_meal' = IF exc = "" THEN Null ELSE ordered_meal
          /\ accepted' = IF exc = "" THEN [accepted EXCEPT !.any = TRUE, !.choice = AX] ELSE accepted
          /\ last' = [op |-> "sign_off", number |-> 0, response |-> response,
                      exc |-> exc, before |-> ordered_meal]
    /\ UNCHANGED getVars

MealInit ==
    /\ pc = "start"
    /\ date = CalDates[1]
    /\ lunch_data = EmptyDict
    /\ week_keys = << >>
    /\ merged = << >>
    /\ result = Null
    /\ \E m \in InitialMeals : MealStart(m)

MealNext ==
    \/ \E number \in ChooseNumbers, response \in Responses : Choose(number, response)
    \/ \E response \in Responses : SignOff(response)

MealSpec == MealInit /\ [][MealNext]_vars

----------------------------------------------------------------------------
(* Properties of get_meals *)

\* the five week keys the calendar gives for the reference date
ExpectedKey(i) == CalKeys[WeekStart(date) + i - 1]

\* the raw object the payload holds for the i-th day of the week
RawRoot == IF LocateRoot(lunch_data).ok THEN LocateRoot(lunch_data).v ELSE Null
RawDay(i) == IF IsDict(RawRoot) THEN Get(RawRoot, ExpectedKey(i), Null) ELSE Null

\* the record returned for the i-th day
OutDay(i) == Get(result, ExpectedKey(i), Null)
IsCookingDay(i) == pc = "returned" /\ IsDict(OutDay(i)) /\ OutDay(i) # NotCooking

\* slot k of a raw day when it is a mapping
IsSlot(o, k) == Has(o, k) /\ IsDict(o.d[k])
InSlot(o, k, f) == IsSlot(o, k) /\ Has(o.d[k], f)

\* C1: when code "2" is a mapping the merged slot is its content minus
\* 'nevarisa' and nothing of "0" or "4" (so a "2" without a truthy isCooking
\* gives a not-cooking day whatever "0" and "4" say); otherwise the merged
\* slot is "0" overlaid by "4", "4" winning on every shared field.
C1_SlotSelection ==
    pc # "start" =>
        \A i \in 1..5 :
            LET o == RawDay(i)
                m == merged[i]
            IN IsDict(o) =>
                /\ IsDict(m)
                /\ ~Has(m, "nevarisa")
                /\ IF IsSlot(o, "2")
                   THEN /\ DOMAIN m.d = (DOMAIN o.d["2"].d) \ {"nevarisa"}
                        /\ \A f \in DOMAIN m.d : m.d[f] = o.d["2"].d[f]
                        /\ (pc = "returned" /\ ~Truthy(Get(o.d["2"], "isCooking", Null)))
                              => OutDay(i) = NotCooking
                   ELSE /\ \A f \in DOMAIN m.d : InSlot(o, "4", f) \/ InSlot(o, "0", f)
                        /\ \A k \in {"0", "4"} : IsSlot(o, k) =>
                              \A f \in (DOMAIN o.d[k].d) \ {"nevarisa"} :
                                  /\ Has(m, f)
                                  /\ m.d[f] = IF InSlot(o, "4", f) THEN o.d["4"].d[f] ELSE o.d["0"].d[f]

\* a day whose "2" lacks isCooking and the field a, beside a cooking "0"
\* that has a, came out not cooking with a merged slot without a
C1_Witness ==
    /\ pc = "returned"
    /\ \E i \in 1..5 :
          /\ IsDict(RawDay(i))
          /\ IsSlot(RawDay(i), "2") /\ ~InSlot(RawDay(i), "2", "isCooking") /\ ~InSlot(RawDay(i), "2", "a")
          /\ InSlot(RawDay(i), "0", "a") /\ Get(RawDay(i).d["0"], "isCooking", Null) = T
          /\ ~Has(merged[i], "a")
          /\ OutDay(i) = NotCooking

\* C2: a date absent from the payload root, or whose merged slot has no
\* truthy isCooking, has exactly the record {isCooking: false}; no returned
\* day record holds isCooking false together with another key.
C2_NotCookingExact ==
    pc = "returned" =>
        \A i \in 1..5 :
            /\ Has(result, ExpectedKey(i))
            /\ (IsNone(RawDay(i)) \/ ~IsDict(merged[i]) \/ ~Truthy(Get(merged[i], "isCooking", Null)))
                  => OutDay(i) = NotCooking
            /\ Get(OutDay(i), "isCooking", Null) = F => DOMAIN OutDay(i).d = {"isCooking"}

\* a day whose "2" says isCooking false and carries menus, ratings, isRating
\* and evidencia came out as the bare not-cooking record
C2_Witness ==
    /\ pc = "returned"
    /\ \E i \in 1..5 :
          /\ IsDict(RawDay(i)) /\ IsSlot(RawDay(i), "2")
          /\ Get(RawDay(i).d["2"], "isCooking", Null) = F
          /\ {"menus", "hodnotenia", "isRating", "evidencia"} \subseteq DOMAIN RawDay(i).d["2"].d
          /\ OutDay(i) = NotCooking

\* the raw rating list and the raw dish rows of menu index mid, as the
\* merged slot of day i holds them
RawArr(i, mid) ==
    LET h == Get(merged[i], "hodnotenia", Null)
    IN IF IsDict(h) THEN Get(h, mid, Null) ELSE Null
RawRows(i, mid) ==
    LET ms == Get(merged[i], "menus", Null)
        rows == IF IsDict(ms) /\ Has(ms, mid) /\ IsDict(ms.d[mid]) THEN Get(ms.d[mid], "rows", Null) ELSE Null
    IN IF IsList(rows) THEN rows.l ELSE << >>
OutReview(i, mid) == OutDay(i).d["reviews"].d[mid]
OutRows(i, mid) == OutDay(i).d["menus"].d[mid].l

\* a number equal to the integer n, whether held as int or as float
NumIs(v, n) == (v.t = "int" /\ v.n = n) \/ (v.t = "float" /\ v.h = 100 * n)

KnownEntry(e) == \E j \in 1..Len(RatingCases) : RatingCases[j].e = e
UsableEntry(e) == KnownEntry(e) /\ CaseOf(e).usable
RECURSIVE UsableCount(_)
UsableCount(arr) == IF Len(arr) = 0 THEN 0 ELSE (IF UsableEntry(Head(arr)) THEN 1 ELSE 0) + UsableCount(Tail(arr))
RECURSIVE UsableSum(_)
UsableSum(arr) == IF Len(arr) = 0 THEN 0 ELSE (IF UsableEntry(Head(arr)) THEN CaseOf(Head(arr)).pr ELSE 0) + UsableSum(Tail(arr))
Abs(x) == IF x < 0 THEN 0 - x ELSE x

\* C3: on a cooking day, a rating list that is absent, not a list, empty, or
\* made only of null entries and entries without a convertible priemer, is
\* summarised as average -1.0 and amount 0.
C3_SentinelWhenUnusable ==
    \A i \in 1..5, mid \in MenuIds :
        IsCookingDay(i) =>
            LET arr == RawArr(i, mid)
            IN (~IsList(arr) \/ UsableCount(arr.l) = 0) =>
                  /\ NumIs(OutReview(i, mid).d["average"], -1)
                  /\ NumIs(OutReview(i, mid).d["amount"], 0)

\* C4: when the rating list has a usable entry, average is the mean of the
\* usable priemer values to the nearest hundredth and amount is the pocet of
\* the first raw entry (0 when it has none that converts, or is null).
C4_MeanAndFirstAmount ==
    \A i \in 1..5, mid \in MenuIds :
        IsCookingDay(i) =>
            LET arr == RawArr(i, mid)
            IN (IsList(arr) /\ UsableCount(arr.l) > 0) =>
                  LET n == UsableCount(arr.l)
                      avg == OutReview(i, mid).d["average"]
                  IN /\ avg.t = "float"
                     /\ 2 * Abs(n * avg.h - UsableSum(arr.l)) <= n
                     /\ OutReview(i, mid).d["amount"] =
                            JInt(IF KnownEntry(arr.l[1]) THEN CaseOf(arr.l[1]).amt ELSE 0)

\* a list whose first entry has pocet 7 and no priemer, followed by one
\* usable entry with pocet 5, was summarised as average 4.0, amount 7
C4_Witness ==
    \E i \in 1..5, mid \in MenuIds :
        /\ IsCookingDay(i)
        /\ RawArr(i, mid) = JList(<<RatingCases[3].e, Null, RatingCases[1].e>>)
        /\ OutReview(i, mid) = JDict([average |-> JFloat(400), amount |-> JInt(7)])

\* what the first weight key present with a non-null value should convert to
ConvOracle(v) ==
    IF v.t = "int" THEN v.n
    ELSE WeightCases[CHOOSE j \in 1..Len(WeightCases) : WeightCases[j].v = v].w
PresentKey(r, k) == Has(r, k) /\ ~IsNone(r.d[k])
ExpectedWeight(r) ==
    IF PresentKey(r, "hmotnostiStr") THEN ConvOracle(r.d["hmotnostiStr"])
    ELSE IF PresentKey(r, "hmotnostStr") THEN ConvOracle(r.d["hmotnostStr"])
    ELSE IF PresentKey(r, "hmotnosti") THEN ConvOracle(r.d["hmotnosti"])
    ELSE IF PresentKey(r, "hmotnost") THEN ConvOracle(r.d["hmotnost"])
    ELSE 0
HasName(r) == IsDict(r) /\ Truthy(Get(r, "nazov", Null))

\* C5: the weight of every output dish is an integer: the conversion of the
\* first of hmotnostiStr, hmotnostStr, hmotnosti, hmotnost that is present
\* and non-null, 0 when that value does not convert (later keys are not
\* consulted) or when no key qualifies.
C5_WeightCoercion ==
    \A i \in 1..5, mid \in MenuIds :
        IsCookingDay(i) =>
            LET kept == SelectSeq(RawRows(i, mid), HasName)
                out == OutRows(i, mid)
            IN /\ Len(out) = Len(kept)
               /\ \A j \in 1..Len(out) : out[j].d["weight"] = JInt(ExpectedWeight(kept[j]))

\* a row whose hmotnostiStr is null, whose hmotnostStr does not convert and
\* whose hmotnosti is a valid number came out with weight 0
C5_Witness ==
    \E i \in 1..5, mid \in MenuIds :
        /\ IsCookingDay(i)
        /\ Len(RawRows(i, mid)) = 1
        /\ LET r == RawRows(i, mid)[1]
           IN /\ Has(r, "hmotnostiStr") /\ r.d["hmotnostiStr"] = Null
              /\ Get(r, "hmotnostStr", Null) = Abc
              /\ Get(r, "hmotnosti", Null) = JInt(7)
        /\ Len(OutRows(i, mid)) = 1
        /\ OutRows(i, mid)[1].d["weight"] = JInt(0)

\* the pick the prior-selection record of a merged slot stands for
ExpectedPick(m) ==
    LET ev == Get(m, "evidencia", Null)
    IN IF ~IsDict(ev) THEN 0
       ELSE IF Get(ev, "stav", Null) = LetterX THEN 0
       ELSE IF Get(ev, "obj", Null) = LetterA THEN 1
       ELSE IF Get(ev, "obj", Null) = LetterB THEN 2
       ELSE 0

\* C6: every cooking day's record carries pick in {0, 1, 2}: 0 when
\* evidencia.stav is "X", else 1 for obj "A", else 2 for obj "B", else 0.
C6_PickDerived ==
    \A i \in 1..5 :
        IsCookingDay(i) =>
            /\ Has(OutDay(i), "pick")
            /\ OutDay(i).d["pick"] = JInt(ExpectedPick(merged[i]))

NameCaseOf(r) == NameCases[CHOOSE j \in 1..Len(NameCases) : NameCases[j].v = Get(r, "nazov", Absent)]
KnownRow(r) == IsDict(r) /\ \E j \in 1..Len(NameCases) : NameCases[j].v = Get(r, "nazov", Absent)
CleansToName(r) == NameCaseOf(r).clean # << >>

\* C7: the output list of a menu index holds, in row order, one entry for
\* exactly the rows whose cleaned name is non-empty, under the cleaned name.
C7_CleanedNames ==
    \A i \in 1..5, mid \in MenuIds :
        (IsCookingDay(i) /\ \A j \in 1..Len(RawRows(i, mid)) : KnownRow(RawRows(i, mid)[j])) =>
            LET kept == SelectSeq(RawRows(i, mid), CleansToName)
                out == OutRows(i, mid)
            IN /\ Len(out) = Len(kept)
               /\ \A j \in 1..Len(out) : out[j].d["name"] = JStr(NameCaseOf(kept[j]).clean)

\* C8: a payload that is the schedule itself, with no account section, is
\* normalised without an exception whatever its days hold.
C8_NeverRaises ==
    (IsDict(lunch_data) /\ (DOMAIN lunch_data.d) \cap {"robotnik", "addInfo", "addinfo"} = {})
        => pc # "raised"

\* C9: the week keys are the Monday of the reference date's week and the
\* four following calendar days, in that order; they are exactly the date
\* keys of the result; the reference date is among them exactly when it is
\* a Monday to Friday.
C9_WeekKeys ==
    /\ pc # "start" => week_keys = [i \in 1..5 |-> ExpectedKey(i)]
    /\ pc = "returned" =>
          /\ (DOMAIN result.d) \ {"info"} = {ExpectedKey(i) : i \in 1..5}
          /\ Cardinality((DOMAIN result.d) \ {"info"}) = 5
          /\ Has(result, CalKeys[CalIndex(date)]) <=> (CalIndex(date) - 1) % 7 < 5

\* called for Sunday 2025-01-05 on a payload holding only Tuesday, Friday
\* and Sunday, it returned Monday 2024-12-30 to Friday 2025-01-03
C9_Witness ==
    /\ pc = "returned"
    /\ date = [y |-> 2025, m |-> 1, d |-> 5]
    /\ IsDict(lunch_data) /\ Has(lunch_data, "2025-01-05") /\ ~Has(lunch_data, "2024-12-30")
    /\ week_keys = <<"2024-12-30", "2024-12-31", "2025-01-01", "2025-01-02", "2025-01-03">>
    /\ ~Has(result, "2025-01-05")
    /\ result.d["2024-12-30"] = NotCooking /\ result.d["2024-12-31"] # NotCooking

----------------------------------------------------------------------------
(* Properties of Meal.choose / Meal.sign_off *)

\* what ordered_meal should be after the submissions accepted so far
Outcome ==
    ordered_meal =
    IF ~accepted.any THEN accepted.init
    ELSE IF accepted.choice = AX THEN Null
    ELSE accepted.choice

\* C10: a sign_off, or a choose(n) with 1 <= n <= 8, answered by a JSON
\* object makes exactly one POST; ordered_meal becomes the n-th letter
\* (None for sign_off) when the error field is "", and otherwise
\* FailedToChangeMealError is raised and ordered_meal is kept; ordered_meal
\* always is the outcome of the last accepted submission, or the initial
\* value when none was accepted.
C10_SingleRequest ==
    [][/\ Outcome'
       /\ ((last'.op = "sign_off" \/ (last'.op = "choose" /\ last'.number \in 1..Len(Letters)))
           /\ IsDict(last'.response)) =>
              /\ posts' = posts + 1
              /\ IF Get(last'.response, "error", Null) = JStr(<< >>)
                 THEN /\ last'.exc = ""
                      /\ ordered_meal' = IF last'.op = "choose" THEN JStr(<<Letters[last'.number]>>) ELSE Null
                 ELSE /\ last'.exc = "FailedToChangeMealError"
                      /\ ordered_meal' = ordered_meal]_vars

\* a meal first ordered as "A" was signed off, then choose(2) was answered
\* without an error field: two requests, the order still None
C10_Witness ==
    /\ accepted.init = LetterA
    /\ accepted.any /\ accepted.choice = AX
    /\ last.op = "choose" /\ last.number = 2 /\ last.response = EmptyDict
    /\ last.exc = "FailedToChangeMealError"
    /\ posts = 2
    /\ ordered_meal = Null

====
